---- MODULE Spec2Model ----
(***************************************************************************)
(* Model of the acquisition manager of odemis (src/odemis/acq/__init__.py): *)
(* the ordering of the streams (_weight_stream, sorted), the run loop of    *)
(* AcquisitionTask.run on its own thread, and AcquisitionTask.cancel called *)
(* from another thread, interleaved at the granularity of the statements    *)
(* that read or write the fields the two threads share.                     *)
(*                                                                          *)
(* Wavelengths are integers in units of 100 nm (1e-7 m) and weights are     *)
(* scaled by WeightScale, so that "100 + ewl_bonus" stays an integer.       *)
(* Durations are integers (tenths of a second).                             *)
(*                                                                          *)
(* Spec is one task run once, with calls of cancel(); SpecReuse adds        *)
(* further calls of run() on the same task; SpecProgress is the run with    *)
(* the progress updates of the sub-futures; SpecDup is that run on a list   *)
(* that may name a stream more than once; SpecAdjust is the run alone on    *)
(* lists with several OverlayStreams; SpecLive is the run with cancel() and *)
(* the progress updates under fair scheduling; SpecAcquire is acquire()     *)
(* step by step with the run it starts; SpecPure applies estimateTime()     *)
(* and the constructor to lists of streams of any class.                    *)
(***************************************************************************)
EXTENDS Integers, Sequences, FiniteSets, TLC

\* Longest input list of streams given to acquire().
MaxStreams == 3
\* Number of calls of cancel() made on one task.
MaxCancels == 2
\* Number of calls of run() made on one task.
MaxRuns == 2
\* Latest end of a sub-step a sub-future reports, counted from now.
MaxEnd == 2
\* Longest input list of the runs with several OverlayStreams.
MaxAdjustStreams == 4

WeightScale == 10 * 1000 * 1000

None == "None"

\* Exceptions: a type and the position of the stream that raised it.
NoException == [type |-> "None", pos |-> 0]
CancelledError == [type |-> "CancelledError", pos |-> 0]
AssertionError == [type |-> "AssertionError", pos |-> 0]
IndexError == [type |-> "IndexError", pos |-> 0]

(***************************************************************************)
(* The streams.  A stream has a class (kind), emission and excitation       *)
(* values (a sequence of bands <<low, high>>; one band for a plain filter,  *)
(* several for a multi-band filter), a name, the value its                  *)
(* estimateAcquisitionTime() returns, and the metadata of each DataArray    *)
(* one acquisition of it yields.                                            *)
(***************************************************************************)
Stream ==
  [ fluoRed   |-> [kind |-> "FluoStream", name |-> "Red dye",
                   emission |-> << <<6, 8>> >>, excitation |-> << <<5, 5>> >>,
                   time |-> 3,
                   md |-> << [exposure |-> 1] >>],
    fluoGreen |-> [kind |-> "FluoStream", name |-> "Green dye",
                   emission |-> << <<4, 6>> >>, excitation |-> << <<4, 4>> >>,
                   time |-> 2,
                   md |-> << [exposure |-> 1, rotation |-> "own rotation"] >>],
    fluoMulti |-> [kind |-> "FluoStream", name |-> "Multi-band dye",
                   emission |-> << <<4, 6>>, <<8, 10>> >>,
                   excitation |-> << <<3, 5>> >>,
                   time |-> 2,
                   md |-> << [exposure |-> 1] >>],
    bright    |-> [kind |-> "BrightfieldStream", name |-> "Bright-field",
                   emission |-> << >>, excitation |-> << >>,
                   time |-> 1,
                   md |-> << [exposure |-> 1] >>],
    semA      |-> [kind |-> "SEMStream", name |-> "Secondary electrons",
                   emission |-> << >>, excitation |-> << >>,
                   time |-> 1,
                   md |-> << [description |-> "Survey"] >>],
    semB      |-> [kind |-> "SEMStream", name |-> "Backscattered electrons",
                   emission |-> << >>, excitation |-> << >>,
                   time |-> 2,
                   md |-> << [dwell |-> 1], [description |-> "Second frame"] >>],
    semCCD    |-> [kind |-> "SEMCCDMDStream", name |-> "Spectrum",
                   emission |-> << >>, excitation |-> << >>,
                   time |-> 4,
                   md |-> << [dwell |-> 1], [exposure |-> 1] >>],
    semMD     |-> [kind |-> "SEMMDStream", name |-> "Scan",
                   emission |-> << >>, excitation |-> << >>,
                   time |-> 3,
                   md |-> << [dwell |-> 1] >>],
    overlay   |-> [kind |-> "OverlayStream", name |-> "Fine alignment",
                   emission |-> << >>, excitation |-> << >>,
                   time |-> 1,
                   md |-> << [rotation |-> "optical correction"],
                             [rotation |-> "SEM correction"] >>],
    overlayB  |-> [kind |-> "OverlayStream", name |-> "Second alignment",
                   emission |-> << >>, excitation |-> << >>,
                   time |-> 1,
                   md |-> << [rotation |-> "optical correction B"],
                             [rotation |-> "SEM correction B"] >>],
    overlayShort |-> [kind |-> "OverlayStream", name |-> "Failed alignment",
                   emission |-> << >>, excitation |-> << >>,
                   time |-> 1,
                   md |-> << [rotation |-> "optical correction only"] >>],
    other     |-> [kind |-> "Stream", name |-> "Unknown",
                   emission |-> << >>, excitation |-> << >>,
                   time |-> 1,
                   md |-> << [exposure |-> 1] >>] ]

AllStreams == DOMAIN Stream

\* The streams the scheduler is run on.
RunStreams == {"fluoRed", "semA", "semB", "overlay"}

\* isinstance(stream, cls), from the class hierarchy of odemis.acq.stream.
IsInstance(s, cls) ==
  LET k == Stream[s].kind IN
  CASE cls = "FluoStream"     -> k = "FluoStream"
    [] cls = "OpticalStream"  -> k \in {"FluoStream", "BrightfieldStream"}
    [] cls = "EMStream"       -> k = "SEMStream"
    [] cls = "SEMCCDMDStream" -> k = "SEMCCDMDStream"
    [] cls = "SEMMDStream"    -> k = "SEMMDStream"
    [] cls = "OverlayStream"  -> k = "OverlayStream"
    [] OTHER                  -> FALSE

\* fluo.get_center(): the centre of a band, or the tuple of the centres of
\* the bands of a multi-band value.
get_center(wl) ==
  IF Len(wl) = 1
  THEN [iterable |-> FALSE, val |-> (wl[1][1] + wl[1][2]) \div 2]
  ELSE [iterable |-> TRUE,
        val |-> [b \in 1..Len(wl) |-> (wl[b][1] + wl[b][2]) \div 2]]

\* A weighting that tests OpticalStream before FluoStream
weight_streamOpticalFirst(s) ==
  IF IsInstance(s, "OpticalStream") THEN 90 * WeightScale
  ELSE IF IsInstance(s, "EMStream") THEN 50 * WeightScale
  ELSE IF IsInstance(s, "SEMCCDMDStream") \/ IsInstance(s, "SEMMDStream")
       THEN 40 * WeightScale
  ELSE IF IsInstance(s, "OverlayStream") THEN 10 * WeightScale
  ELSE 0

\* _weight_stream(stream), times WeightScale.
weight_stream(s) ==
  IF IsInstance(s, "FluoStream") THEN
    LET ewl_center == get_center(Stream[s].emission)
        ewl_bonus ==
          IF ewl_center.iterable THEN
            LET xwl_center == get_center(Stream[s].excitation) IN
            IF ewl_center.iterable     \* line 151 tests ewl_center again
            THEN ewl_center.val[1]
            ELSE xwl_center.val + 500  \* 50e-6 m
          ELSE ewl_center.val
    IN 100 * WeightScale + ewl_bonus
  ELSE IF IsInstance(s, "OpticalStream") THEN 90 * WeightScale
  ELSE IF IsInstance(s, "EMStream") THEN 50 * WeightScale
  ELSE IF IsInstance(s, "SEMCCDMDStream") \/ IsInstance(s, "SEMMDStream")
       THEN 40 * WeightScale
  ELSE IF IsInstance(s, "OverlayStream") THEN 10 * WeightScale
  ELSE 0

\* A comparison that does not keep the input order of equal keys.
GoesBeforeStrict(ws, wt) == ws > wt

\* The comparison sorted(..., reverse=True) places an element by: s goes
\* before t when it is not smaller (equal keys keep their input order).
GoesBefore(ws, wt) == ws >= wt

\* One step of the stable sort: x is put after every element that goes
\* before it.
RECURSIVE InsertStream(_, _)
InsertStream(sorted, x) ==
  IF sorted = << >> THEN << x >>
  ELSE IF GoesBefore(weight_stream(Head(sorted)), weight_stream(x))
       THEN << Head(sorted) >> \o InsertStream(Tail(sorted), x)
       ELSE << x >> \o sorted

\* sorted(streams, key=_weight_stream, reverse=True)
RECURSIVE SortedStreams(_)
SortedStreams(in) ==
  IF in = << >> THEN << >>
  ELSE InsertStream(SortedStreams(SubSeq(in, 1, Len(in) - 1)), in[Len(in)])

\* The lists without repetition of n streams of S.
RECURSIVE ListsOf(_, _)
ListsOf(S, n) ==
  IF n = 0 THEN { << >> }
  ELSE { l \o << s >> : l \in ListsOf(S, n - 1), s \in S }

Distinct(l) == \A a, b \in 1..Len(l) : a # b => l[a] # l[b]

Inputs == UNION { { l \in ListsOf(RunStreams, n) : Distinct(l) } : n \in 0..MaxStreams }

\* The lists of streams of any class, a stream possibly listed twice.
AnyInputs == UNION { ListsOf(AllStreams, n) : n \in 0..MaxStreams }

\* s.estimateAcquisitionTime()
estimateAcquisitionTime(s) == Stream[s].time

\* An estimate that counts a stream listed twice once
RECURSIVE estimateTimeOfSet(_)
estimateTimeOfSet(l) ==
  IF l = << >> THEN 0
  ELSE LET rest == SubSeq(l, 1, Len(l) - 1) IN
       IF \E k \in 1..Len(rest) : rest[k] = l[Len(l)]
       THEN estimateTimeOfSet(rest)
       ELSE estimateTimeOfSet(rest) + estimateAcquisitionTime(l[Len(l)])

\* estimateTime(streams): tot_time after the loop over the list
RECURSIVE estimateTime(_)
estimateTime(l) ==
  IF l = << >> THEN 0
  ELSE estimateTime(SubSeq(l, 1, Len(l) - 1))
         + estimateAcquisitionTime(l[Len(l)])


(***************************************************************************)
(* Raw data.  One acquisition of stream s yields one DataArray per element  *)
(* of Stream[s].md; a DataArray is identified by its stream and its index   *)
(* and carries its metadata (a dict).                                       *)
(***************************************************************************)
DataArrays(s) ==
  [j \in 1..Len(Stream[s].md) |->
     [stream |-> s, idx |-> j, metadata |-> Stream[s].md[j]]]

\* The empty dict; also stands for the None of opt_cor_md and sem_cor_md.
NoMetadata == [k \in {} |-> None]

Range(l) == { l[k] : k \in 1..Len(l) }

RECURSIVE SumTimes(_, _)
SumTimes(times, S) ==
  IF S = {} THEN 0
  ELSE LET s == CHOOSE x \in S : TRUE IN times[s] + SumTimes(times, S \ {s})

\* The orders in which the keys of a dict can be listed.
RECURSIVE KeyOrders(_)
KeyOrders(S) ==
  IF S = {} THEN { << >> }
  ELSE UNION { { << s >> \o l : l \in KeyOrders(S \ {s}) } : s \in S }

\* sum(raw_images.values(), []) for the dict listed in the order ord.
RECURSIVE SumValues(_, _)
SumValues(raw, ord) ==
  IF ord = << >> THEN << >>
  ELSE raw[Head(ord)] \o SumValues(raw, Tail(ord))

\* img.mergeMetadata(current, correction): the entries of the correction
\* are added to the metadata, the entries the metadata has are kept.
mergeMetadata(current, correction) ==
  [k \in DOMAIN current \cup DOMAIN correction |->
     IF k \in DOMAIN current THEN current[k] ELSE correction[k]]

\* The OverlayStreams of the dict, in the order ord of its keys.
Overlays(raw, ord) ==
  SelectSeq(ord, LAMBDA s : s \in DOMAIN raw /\ IsInstance(s, "OverlayStream"))

\* Correction metadata taken from two OverlayStreams: the optical one of
\* the first listed, the SEM one of the last listed
CorrectionMetadataMixed(raw, ord, n) ==
  LET ovl == Overlays(raw, ord) IN
  IF ovl = << >> THEN NoMetadata
  ELSE IF n = 1 THEN raw[ovl[1]][n].metadata
       ELSE raw[ovl[Len(ovl)]][n].metadata

\* opt_cor_md (n = 1) and sem_cor_md (n = 2) after lines 265-273: the
\* metadata of the n-th DataArray of the OverlayStream listed last.
CorrectionMetadata(raw, ord, n) ==
  LET ovl == Overlays(raw, ord) IN
  IF ovl = << >> THEN NoMetadata
  ELSE raw[ovl[Len(ovl)]][n].metadata

\* The positions of ord at which lines 271-272 raise IndexError: an
\* OverlayStream whose data has fewer than two DataArrays.
ShortOverlays(raw, ord) ==
  { k \in 1..Len(ord) : /\ IsInstance(ord[k], "OverlayStream")
                        /\ Len(raw[ord[k]]) < 2 }

\* _adjust_metadata(raw_data) raises, for the dict listed in the order ord
AdjustRaises(raw, ord) == ShortOverlays(raw, ord) # {}

\* The dict when _adjust_metadata raises at lines 271-272: the entries of
\* the OverlayStreams listed before the failing one are deleted (line 273),
\* nothing is merged and no description is set.
adjust_metadataUntilError(raw, ord) ==
  LET k == CHOOSE a \in ShortOverlays(raw, ord) :
                \A b \in ShortOverlays(raw, ord) : a <= b
      deleted == { ord[j] : j \in { a \in 1..(k - 1) :
                                      IsInstance(ord[a], "OverlayStream") } }
  IN [s \in DOMAIN raw \ deleted |-> raw[s]]

\* An adjustment without the "del raw_data[s]" of line 273
adjust_metadataKeepsOverlay(raw, ord) == raw

\* An adjustment that sets the description of every DataArray
adjust_metadataRenames(raw, ord) ==
  [s \in { t \in DOMAIN raw : ~IsInstance(t, "OverlayStream") } |->
     [j \in 1..Len(raw[s]) |->
        [raw[s][j] EXCEPT !.metadata =
           [k \in DOMAIN raw[s][j].metadata \cup {"description"} |->
              IF k = "description" THEN Stream[s].name
              ELSE raw[s][j].metadata[k]]]]]

\* An adjustment that takes the optical correction for the SEM one
adjust_metadataSwapped(raw, ord) ==
  LET opt_cor_md == CorrectionMetadata(raw, ord, 2)
      sem_cor_md == CorrectionMetadata(raw, ord, 1)
      merged(s, d) ==
        IF IsInstance(s, "OpticalStream")
        THEN mergeMetadata(d.metadata, opt_cor_md)
        ELSE IF IsInstance(s, "EMStream")
             THEN mergeMetadata(d.metadata, sem_cor_md)
             ELSE d.metadata
      described(s, md) ==
        IF "description" \in DOMAIN md THEN md
        ELSE [k \in DOMAIN md \cup {"description"} |->
                IF k = "description" THEN Stream[s].name ELSE md[k]]
  IN [s \in { t \in DOMAIN raw : ~IsInstance(t, "OverlayStream") } |->
        [j \in 1..Len(raw[s]) |->
           [raw[s][j] EXCEPT !.metadata = described(s, merged(s, raw[s][j]))]]]

\* _adjust_metadata(raw_data), for the dict listed in the order ord: the
\* entries of the OverlayStreams are deleted (lines 267-273), the correction
\* metadata is merged (277-283) and the description is set (286-289).
adjust_metadata(raw, ord) ==
  LET opt_cor_md == CorrectionMetadata(raw, ord, 1)
      sem_cor_md == CorrectionMetadata(raw, ord, 2)
      merged(s, d) ==
        IF IsInstance(s, "OpticalStream")
        THEN mergeMetadata(d.metadata, opt_cor_md)
        ELSE IF IsInstance(s, "EMStream")
             THEN mergeMetadata(d.metadata, sem_cor_md)
             ELSE d.metadata
      described(s, md) ==
        IF "description" \in DOMAIN md THEN md
        ELSE [k \in DOMAIN md \cup {"description"} |->
                IF k = "description" THEN Stream[s].name ELSE md[k]]
  IN [s \in { t \in DOMAIN raw : ~IsInstance(t, "OverlayStream") } |->
        [j \in 1..Len(raw[s]) |->
           [raw[s][j] EXCEPT !.metadata = described(s, merged(s, raw[s][j]))]]]

\* A loop that steps over a stream.
NextStreamSkips(k) == k + 2

\* The next position of "for s in self._streams".
NextStream(k) == k + 1

\* A handler that never re-raises, and one that always does.
NoAcquisitionYetNever(raw) == FALSE
NoAcquisitionYetAlways(raw) == TRUE

\* "if not raw_images: raise", else the exception is kept and returned.
NoAcquisitionYet(raw) == DOMAIN raw = {}

(***************************************************************************)
(* Sub-futures.  The future of the acquisition started at position k of     *)
(* the sorted list is identified by k (0 is None).  It is "running" until   *)
(* it ends "done" (result() returns the data), "failed" (result() raises    *)
(* its exception) or "cancelled" (result() raises CancelledError).          *)
(* cancel() on it returns True iff the future is cancelled afterwards; a    *)
(* running future accepts (acc) or refuses the request.                     *)
(***************************************************************************)
FutureAfterCancel(state, acc) ==
  IF state = "running" /\ acc THEN "cancelled" ELSE state

FutureCancelReturn(state, acc) == FutureAfterCancel(state, acc) = "cancelled"

\* The exception result() of the sub-future k raises, and the one
\* s.acquire() raises at position k.
AcqError(k) == [type |-> "AcquisitionError", pos |-> k]
StartError(k) == [type |-> "StartError", pos |-> k]

(***************************************************************************)
(* The future acquire() returns (model.ProgressiveFuture, run by            *)
(* _futures.executeTask): Pending until the thread runs the task, Running   *)
(* then, and at the end Finished (run() returned), Failed (run() raised an  *)
(* error) or Cancelled (cancel() returned True, or run() raised             *)
(* CancelledError).  A future that reached one of the last three states     *)
(* keeps it.                                                                *)
(***************************************************************************)
FutureEnded(state) == state \in { "Finished", "Failed", "Cancelled" }

FutureOnStart(state) == IF state = "Pending" THEN "Running" ELSE state

\* A future whose result can be set whatever its state
FutureOnReturnOverwrites(state) == "Finished"

FutureOnReturn(state) == IF FutureEnded(state) THEN state ELSE "Finished"

FutureOnRaise(state, e) ==
  IF FutureEnded(state) THEN state
  ELSE IF e = CancelledError THEN "Cancelled" ELSE "Failed"

FutureOnCancel(state, value) ==
  IF FutureEnded(state) \/ ~value THEN state ELSE "Cancelled"

\* The streams whose acquire() returns a future with add_update_callback
\* (line 227); on the others the call raises AttributeError (lines 228-229).
HasUpdateCallback(s) == Stream[s].kind # "SEMStream"

\* No call of _on_progress_update yet
NoUpdate == [from |-> 0, tracked |-> 0]

VARIABLES
  streams_in,       \* the list given to acquire()
  streams,          \* self._streams
  streamTimes,      \* self._streamTimes
  streams_left,     \* self._streams_left
  current_stream,   \* self._current_stream
  current_future,   \* self._current_future (position, 0 for None)
  cancelled,        \* self._cancelled
  progress,         \* the end given to future.set_progress(), less time.time()
  futs,             \* state of the sub-future of each position
  pc,               \* position of the thread executing run()
  i,                \* position of s in the for loop of run()
  f,                \* f of run()
  raw_images,       \* raw_images of run()
  expected_time,    \* expected_time of run()
  ret, exp,         \* the tuple run() returned
  raised,           \* the exception run() raised
  thrown,           \* history: the exception raised in the try block of run()
  started,          \* history: the acquisitions started, in order
  completed,        \* history: the streams whose result run() obtained
  cpc,              \* position of the thread executing cancel()
  c_future,         \* self._current_future as read by cancel()
  c_cancelled,      \* cancelled of cancel()
  c_inflight,       \* history: the position in flight when cancel() was called
  c_state,          \* history: the state of the future cancel() asked
  ncalls,           \* calls of cancel() made so far
  cancel_log,       \* history: one record per call of cancel() that returned
  c_when,           \* history: where run() was when cancel() was called
  nruns,            \* calls of run() made so far
  fut_state,        \* state of the future acquire() returned
  subscribed,       \* sub-futures _on_progress_update is registered on
  last_update,      \* history: the last call of _on_progress_update
  est_pc,           \* position in estimateTime()
  est_k,            \* position of s in the for loop of estimateTime()
  tot_time,         \* tot_time of estimateTime()
  acq_pc,           \* position in acquire()
  task_canceller,   \* future.task_canceller
  cancel_lost       \* history: a cancel() of the future reached no canceller

task_vars == << streams_in, streams, streamTimes, streams_left, current_stream,
                current_future, cancelled >>
run_vars == << pc, i, f, raw_images, expected_time, ret, exp, raised, thrown >>
hist_vars == << started, completed >>
cancel_vars == << cpc, c_future, c_cancelled, c_inflight, c_state, ncalls,
                 cancel_log, c_when >>
update_vars == << subscribed, last_update >>
est_vars == << est_pc, est_k, tot_time >>
acq_vars == << acq_pc, task_canceller, cancel_lost >>
vars == << task_vars, run_vars, hist_vars, cancel_vars, progress, futs,
           nruns, fut_state, update_vars, est_vars, acq_vars >>

\* acquire() up to the start of the thread, with AcquisitionTask.__init__,
\* for a list of streams
InitTask(input) ==
  /\ streams_in = input
  /\ streams = SortedStreams(streams_in)
  /\ streamTimes = [s \in Range(streams_in) |-> Stream[s].time]
  /\ streams_left = Range(streams)
  /\ current_stream = None
  /\ current_future = 0
  /\ cancelled = FALSE
  /\ progress = None
  /\ futs = [k \in 1..Len(streams) |-> "none"]
  /\ pc = "start"
  /\ i = 0
  /\ f = 0
  /\ raw_images = << >>
  /\ expected_time = 0
  /\ ret = << >>
  /\ exp = NoException
  /\ raised = NoException
  /\ thrown = [exc |-> NoException, line |-> 0]
  /\ started = << >>
  /\ completed = << >>
  /\ cpc = "idle"
  /\ c_future = 0
  /\ c_cancelled = FALSE
  /\ c_inflight = 0
  /\ c_state = "none"
  /\ ncalls = 0
  /\ cancel_log = << >>
  /\ c_when = "none"
  /\ nruns = 0
  /\ fut_state = "Pending"
  /\ subscribed = {}
  /\ last_update = NoUpdate
  /\ est_pc = "idle"
  /\ est_k = 0
  /\ tot_time = 0
  /\ acq_pc = "returned"
  /\ task_canceller = "cancel"
  /\ cancel_lost = FALSE

Init == \E input \in Inputs : InitTask(input)

(***************************************************************************)
(* The except clauses of run() (lines 242-249) and its return (252-253),    *)
(* for the exception e raised in the try block at the given line.           *)
(***************************************************************************)
\* Without the "except CancelledError" clause
IsCancelledErrorMissing(e) == FALSE

\* "except CancelledError" catches e
IsCancelledError(e) == e = CancelledError

\* A handler that re-raises every error of s.acquire()
ExceptStartRaises(e, raw, line) ==
  /\ thrown' = [exc |-> e, line |-> line]
  /\ IF IsCancelledError(e) \/ e.type = "StartError" \/ NoAcquisitionYet(raw)
     THEN /\ pc' = "raised"
          /\ raised' = e
          /\ fut_state' = FutureOnRaise(fut_state, e)
          /\ UNCHANGED << ret, exp >>
     ELSE /\ pc' = "returned"
          /\ \E ord \in KeyOrders(DOMAIN raw) : ret' = SumValues(raw, ord)
          /\ exp' = e
          /\ fut_state' = FutureOnReturn(fut_state)
          /\ UNCHANGED raised

Except(e, raw, line) ==
  /\ thrown' = [exc |-> e, line |-> line]
  /\ IF IsCancelledError(e) \/ NoAcquisitionYet(raw)
     THEN /\ pc' = "raised"
          /\ raised' = e
          /\ fut_state' = FutureOnRaise(fut_state, e)
          /\ UNCHANGED << ret, exp >>
     ELSE /\ pc' = "returned"
          /\ \E ord \in KeyOrders(DOMAIN raw) : ret' = SumValues(raw, ord)
          /\ exp' = e
          /\ fut_state' = FutureOnReturn(fut_state)
          /\ UNCHANGED raised

\* run(), lines 200-207
RunBegin ==
  /\ pc = "start"
  /\ IF current_stream = None
     THEN /\ expected_time' = SumTimes(streamTimes, DOMAIN streamTimes)
          /\ progress' = expected_time'
          /\ raw_images' = << >>
          /\ i' = 1
          /\ pc' = "loop"
          /\ UNCHANGED raised
     ELSE /\ pc' = "raised"
          /\ raised' = AssertionError
          /\ UNCHANGED << expected_time, progress, raw_images, i >>
  /\ nruns' = nruns + 1
  /\ fut_state' = FutureOnStart(fut_state)
  /\ UNCHANGED << task_vars, f, ret, exp, thrown, hist_vars, cancel_vars, futs,
                  update_vars, est_vars, acq_vars >>

\* run(), lines 209-215: the acquisition of the next stream is started
RunAcquire ==
  /\ pc = "loop"
  /\ i <= Len(streams)
  /\ futs' = [futs EXCEPT ![i] = "running"]
  /\ f' = i
  /\ started' = Append(started, [stream |-> streams[i], pos |-> i,
                                 after_cancel |-> cancelled])
  /\ pc' = "set_current"
  /\ UNCHANGED << task_vars, i, raw_images, expected_time, ret, exp, raised,
                  thrown, completed, cancel_vars, progress, nruns, fut_state,
                  update_vars, est_vars, acq_vars >>

\* run(), lines 212-215 when s.acquire() raises
RunAcquireRaises ==
  /\ pc = "loop"
  /\ i <= Len(streams)
  /\ Except(StartError(i), raw_images, 213)
  /\ UNCHANGED << task_vars, i, f, raw_images, expected_time, hist_vars,
                  cancel_vars, progress, futs, nruns, update_vars,
                  est_vars, acq_vars >>

\* run(), lines 216-217
RunSetCurrent ==
  /\ pc = "set_current"
  /\ current_future' = f
  /\ current_stream' = streams[i]
  /\ pc' = "discard"
  /\ UNCHANGED << streams_in, streams, streamTimes, streams_left, cancelled,
                  i, f, raw_images, expected_time, ret, exp, raised, thrown,
                  hist_vars, cancel_vars, progress, futs, nruns, fut_state,
                  update_vars, est_vars, acq_vars >>

\* run(), line 218
RunDiscard ==
  /\ pc = "discard"
  /\ streams_left' = streams_left \ { streams[i] }
  /\ pc' = "check"
  /\ UNCHANGED << streams_in, streams, streamTimes, current_stream,
                  current_future, cancelled, i, f, raw_images, expected_time,
                  ret, exp, raised, thrown, hist_vars, cancel_vars, progress,
                  futs, nruns, fut_state, update_vars, est_vars, acq_vars >>

\* A run() that does not look at the flag
CancelRequestedIgnored(flag) == FALSE

\* "if self._cancelled" of run(), for the value of the flag
CancelRequested(flag) == flag

\* run(), lines 220-229
RunCheckCancelled ==
  /\ pc = "check"
  /\ IF CancelRequested(cancelled)
     THEN /\ \E acc \in BOOLEAN :
               futs' = [futs EXCEPT ![f] = FutureAfterCancel(futs[f], acc)]
          /\ Except(CancelledError, raw_images, 223)
          /\ UNCHANGED subscribed
     ELSE /\ subscribed' = IF HasUpdateCallback(streams[i])
                           THEN subscribed \cup { f } ELSE subscribed
          /\ pc' = "result"
          /\ UNCHANGED << futs, ret, exp, raised, thrown, fut_state >>
  /\ UNCHANGED << task_vars, i, f, raw_images, expected_time, hist_vars,
                  cancel_vars, progress, nruns, last_update,
                  est_vars, acq_vars >>

\* A result() that returns only once the acquisition has its data
RunResultWaitsForData ==
  /\ pc = "result"
  /\ futs[f] = "done"
  /\ raw_images' = [s \in DOMAIN raw_images \cup { streams[i] } |->
                      IF s = streams[i] THEN DataArrays(s) ELSE raw_images[s]]
  /\ completed' = Append(completed, streams[i])
  /\ pc' = "update"
  /\ UNCHANGED << task_vars, i, f, expected_time, ret, exp, raised, thrown,
                  started, cancel_vars, progress, futs, nruns, fut_state,
                  update_vars, est_vars, acq_vars >>

\* A result() that returns the data without waiting for the acquisition
RunResultNoWait ==
  /\ pc = "result"
  /\ raw_images' = [s \in DOMAIN raw_images \cup { streams[i] } |->
                      IF s = streams[i] THEN DataArrays(s) ELSE raw_images[s]]
  /\ completed' = Append(completed, streams[i])
  /\ pc' = "update"
  /\ UNCHANGED << task_vars, i, f, expected_time, ret, exp, raised, thrown,
                  started, cancel_vars, progress, futs, nruns, fut_state,
                  update_vars, est_vars, acq_vars >>

\* run(), line 233
RunResult ==
  /\ pc = "result"
  /\ futs[f] # "running"
  /\ CASE futs[f] = "done" ->
            /\ raw_images' = [s \in DOMAIN raw_images \cup { streams[i] } |->
                                IF s = streams[i] THEN DataArrays(s)
                                ELSE raw_images[s]]
            /\ completed' = Append(completed, streams[i])
            /\ pc' = "update"
            /\ UNCHANGED << ret, exp, raised, thrown, fut_state >>
       [] futs[f] = "failed" ->
            /\ Except(AcqError(f), raw_images, 233)
            /\ UNCHANGED << raw_images, completed >>
       [] futs[f] = "cancelled" ->
            /\ Except(CancelledError, raw_images, 233)
            /\ UNCHANGED << raw_images, completed >>
  /\ UNCHANGED << task_vars, i, f, expected_time, started, cancel_vars,
                  progress, futs, nruns, update_vars, est_vars, acq_vars >>

\* An update that adds the time of the stream done to the time left
RunUpdateAdds ==
  /\ pc = "update"
  /\ expected_time' = expected_time + streamTimes[streams[i]]
  /\ progress' = expected_time'
  /\ i' = NextStream(i)
  /\ pc' = "loop"
  /\ UNCHANGED << task_vars, f, raw_images, ret, exp, raised, thrown,
                  hist_vars, cancel_vars, futs, nruns, fut_state, update_vars,
                  est_vars, acq_vars >>

\* run(), lines 235-237
RunUpdate ==
  /\ pc = "update"
  /\ expected_time' = expected_time - streamTimes[streams[i]]
  /\ progress' = expected_time'
  /\ i' = NextStream(i)
  /\ pc' = "loop"
  /\ UNCHANGED << task_vars, f, raw_images, ret, exp, raised, thrown,
                  hist_vars, cancel_vars, futs, nruns, fut_state, update_vars,
                  est_vars, acq_vars >>

\* A run that calls _adjust_metadata after its try block
RunAdjustReturnOutsideTry ==
  /\ pc = "loop"
  /\ i > Len(streams)
  /\ \E ord \in KeyOrders(DOMAIN raw_images) :
       IF AdjustRaises(raw_images, ord)
       THEN LET part == adjust_metadataUntilError(raw_images, ord) IN
            /\ raw_images' = part
            /\ thrown' = [exc |-> IndexError, line |-> 240]
            /\ pc' = "raised"
            /\ raised' = IndexError
            /\ fut_state' = FutureOnRaise(fut_state, IndexError)
            /\ UNCHANGED << ret, exp >>
       ELSE /\ raw_images' = adjust_metadata(raw_images, ord)
            /\ ret' = SumValues(raw_images',
                                SelectSeq(ord, LAMBDA s : s \in DOMAIN raw_images'))
            /\ exp' = NoException
            /\ pc' = "returned"
            /\ fut_state' = FutureOnReturn(fut_state)
            /\ UNCHANGED << raised, thrown >>
  /\ UNCHANGED << task_vars, i, f, expected_time, started, completed,
                  cancel_vars, progress, futs, nruns, update_vars,
                  est_vars, acq_vars >>

\* run(), lines 239-253, once the loop is over: _adjust_metadata either
\* returns or raises IndexError, which run() handles as any exception
RunAdjustReturn ==
  /\ pc = "loop"
  /\ i > Len(streams)
  /\ \E ord \in KeyOrders(DOMAIN raw_images) :
       IF AdjustRaises(raw_images, ord)
       THEN LET part == adjust_metadataUntilError(raw_images, ord) IN
            /\ raw_images' = part
            /\ Except(IndexError, part, 240)
       ELSE /\ raw_images' = adjust_metadata(raw_images, ord)
            /\ ret' = SumValues(raw_images',
                                SelectSeq(ord, LAMBDA s : s \in DOMAIN raw_images'))
            /\ exp' = NoException
            /\ pc' = "returned"
            /\ fut_state' = FutureOnReturn(fut_state)
            /\ UNCHANGED << raised, thrown >>
  /\ UNCHANGED << task_vars, i, f, expected_time, started, completed,
                  cancel_vars, progress, futs, nruns, update_vars,
                  est_vars, acq_vars >>

\* The acquisition of position k ends with its data
SubDone(k) ==
  /\ futs[k] = "running"
  /\ futs' = [futs EXCEPT ![k] = "done"]
  /\ UNCHANGED << task_vars, run_vars, hist_vars, cancel_vars, progress,
                  nruns, fut_state, update_vars, est_vars, acq_vars >>

\* The acquisition of position k ends with an exception
SubFail(k) ==
  /\ futs[k] = "running"
  /\ futs' = [futs EXCEPT ![k] = "failed"]
  /\ UNCHANGED << task_vars, run_vars, hist_vars, cancel_vars, progress,
                  nruns, fut_state, update_vars, est_vars, acq_vars >>

\* Where run() is when cancel() is called: before any acquisition was
\* started, in the gap between an acquisition that ended with its data and
\* the start of the next one, or elsewhere.
CallMoment ==
  CASE pc \in { "returned", "raised" } -> "ended"
    [] Len(started) = 0 -> "before"
    [] /\ Len(started) < Len(streams)
       /\ futs[Len(started)] = "done" -> "gap"
    [] OTHER -> "other"

\* A cancel() that flips the flag
CancelSetFlagFlips ==
  /\ cpc = "idle"
  /\ ncalls < MaxCancels
  /\ cancelled' = ~cancelled
  /\ ncalls' = ncalls + 1
  /\ c_inflight' = IF \E k \in DOMAIN futs : futs[k] = "running"
                   THEN CHOOSE k \in DOMAIN futs : futs[k] = "running"
                   ELSE 0
  /\ c_when' = CallMoment
  /\ cpc' = "read"
  /\ UNCHANGED << streams_in, streams, streamTimes, streams_left,
                  current_stream, current_future, run_vars, hist_vars,
                  c_future, c_cancelled, c_state, cancel_log, progress, futs,
                  nruns, fut_state, update_vars, est_vars, acq_vars >>

\* cancel(), line 309
CancelSetFlag ==
  /\ cpc = "idle"
  /\ ncalls < MaxCancels
  /\ cancelled' = TRUE
  /\ ncalls' = ncalls + 1
  /\ c_inflight' = IF \E k \in DOMAIN futs : futs[k] = "running"
                   THEN CHOOSE k \in DOMAIN futs : futs[k] = "running"
                   ELSE 0
  /\ c_when' = CallMoment
  /\ cpc' = "read"
  /\ UNCHANGED << streams_in, streams, streamTimes, streams_left,
                  current_stream, current_future, run_vars, hist_vars,
                  c_future, c_cancelled, c_state, cancel_log, progress, futs,
                  nruns, fut_state, update_vars, est_vars, acq_vars >>

\* cancel(), lines 311 and 313-314
CancelReadFuture ==
  /\ cpc = "read"
  /\ c_future' = current_future
  /\ IF current_future # 0
     THEN cpc' = "call" /\ UNCHANGED << c_cancelled, c_state >>
     ELSE /\ c_cancelled' = FALSE
          /\ c_state' = "none"
          /\ cpc' = "report"
  /\ UNCHANGED << task_vars, run_vars, hist_vars, c_inflight, ncalls,
                  cancel_log, c_when, progress, futs, nruns, fut_state,
                  update_vars, est_vars, acq_vars >>

\* cancel(), line 312
CancelCurrentFuture ==
  /\ cpc = "call"
  /\ \E acc \in BOOLEAN :
       /\ futs' = [futs EXCEPT ![c_future] = FutureAfterCancel(futs[c_future], acc)]
       /\ c_cancelled' = FutureCancelReturn(futs[c_future], acc)
  /\ c_state' = futs[c_future]
  /\ cpc' = "report"
  /\ UNCHANGED << task_vars, run_vars, hist_vars, c_future, c_inflight,
                  ncalls, cancel_log, c_when, progress, nruns, fut_state,
                  update_vars, est_vars, acq_vars >>

\* "or" in the place of "and" in line 317
CancelValueOr(was_cancelled, left) ==
  IF ~was_cancelled \/ left = {} THEN FALSE ELSE TRUE

\* The value cancel() returns, lines 316-320
CancelValue(was_cancelled, left) ==
  IF ~was_cancelled /\ left = {} THEN FALSE ELSE TRUE

\* cancel(), lines 316-320
CancelReturn ==
  /\ cpc = "report"
  /\ cancel_log' = Append(cancel_log,
                          [inflight |-> c_inflight,
                           asked |-> c_future,
                           asked_state |-> c_state,
                           accepted |-> c_cancelled,
                           left |-> streams_left,
                           value |-> CancelValue(c_cancelled, streams_left),
                           when |-> c_when])
  /\ fut_state' = FutureOnCancel(fut_state,
                                 CancelValue(c_cancelled, streams_left))
  /\ cpc' = "idle"
  /\ c_future' = 0
  /\ c_cancelled' = FALSE
  /\ c_inflight' = 0
  /\ c_state' = "none"
  /\ c_when' = "none"
  /\ UNCHANGED << task_vars, run_vars, hist_vars, ncalls, progress, futs,
                  nruns, update_vars, est_vars, acq_vars >>

Next ==
  \/ RunBegin
  \/ RunAcquire
  \/ RunAcquireRaises
  \/ RunSetCurrent
  \/ RunDiscard
  \/ RunCheckCancelled
  \/ RunResult
  \/ RunUpdate
  \/ RunAdjustReturn
  \/ \E k \in 1..Len(streams) : SubDone(k)
  \/ \E k \in 1..Len(streams) : SubFail(k)
  \/ CancelSetFlag
  \/ CancelReadFuture
  \/ CancelCurrentFuture
  \/ CancelReturn

Spec == Init /\ [][Next]_vars

(***************************************************************************)
(* A task whose run() is called again once a call of it has ended: the      *)
(* locals of run() are new, the fields of the task are as the previous      *)
(* call left them.                                                          *)
(***************************************************************************)
RunAgain ==
  /\ pc \in { "returned", "raised" }
  /\ nruns < MaxRuns
  /\ pc' = "start"
  /\ i' = 0
  /\ f' = 0
  /\ raw_images' = << >>
  /\ expected_time' = 0
  /\ ret' = << >>
  /\ exp' = NoException
  /\ raised' = NoException
  /\ thrown' = [exc |-> NoException, line |-> 0]
  /\ UNCHANGED << task_vars, hist_vars, cancel_vars, progress, futs, nruns,
                  fut_state, update_vars, est_vars, acq_vars >>

NextReuse == Next \/ RunAgain

(***************************************************************************)
(* The progress updates of the sub-futures.  A sub-future on which run()    *)
(* registered _on_progress_update (line 227) calls it, from its own         *)
(* thread, with the end it expects for its sub-step.                        *)
(***************************************************************************)
\* A callback that takes the update of any sub-future
IsCurrentFutureAlways(tracked, k) == TRUE

\* "self._current_future != f" does not hold, line 297
IsCurrentFuture(tracked, k) == tracked = k

\* _on_progress_update(f, start, end) called by the sub-future k
OnProgressUpdate(k, end) ==
  /\ k \in subscribed
  /\ last_update' = [from |-> k, tracked |-> current_future]
  /\ IF IsCurrentFuture(current_future, k)
     THEN progress' = end + SumTimes(streamTimes, streams_left)
     ELSE UNCHANGED progress
  /\ UNCHANGED << task_vars, run_vars, hist_vars, cancel_vars, futs, nruns,
                  fut_state, subscribed, est_vars, acq_vars >>

NextProgress ==
  \/ RunBegin
  \/ RunAcquire
  \/ RunAcquireRaises
  \/ RunSetCurrent
  \/ RunDiscard
  \/ RunCheckCancelled
  \/ RunResult
  \/ RunUpdate
  \/ RunAdjustReturn
  \/ \E k \in 1..Len(streams) : SubDone(k)
  \/ \E k \in 1..Len(streams) : SubFail(k)
  \/ \E k \in 1..Len(streams), end \in 0..MaxEnd : OnProgressUpdate(k, end)

SpecProgress == Init /\ [][NextProgress]_vars

(***************************************************************************)
(* The same run for the lists in which a stream may be listed more than     *)
(* once: _streams keeps every entry, _streamTimes and _streams_left have    *)
(* one entry per stream.                                                    *)
(***************************************************************************)
DupInputs == UNION { ListsOf(RunStreams, n) : n \in 0..MaxStreams }

InitDup == \E input \in DupInputs : InitTask(input)

SpecDup == InitDup /\ [][NextProgress]_vars

(***************************************************************************)
(* The run with the calls of cancel() and the progress updates together,    *)
(* under the scheduling the threads have: the thread of run() is not        *)
(* starved (RunStep), and an acquisition in progress ends (SubStep).  Each  *)
(* step of run() changes pc and each end of an acquisition changes futs.    *)
(***************************************************************************)
\* A stream whose future reports its progress and one whose future does not
LiveStreams == {"fluoRed", "semA"}

LiveInputs ==
  UNION { { l \in ListsOf(LiveStreams, n) : Distinct(l) } :
          n \in 0..Cardinality(LiveStreams) }

InitLive == \E input \in LiveInputs : InitTask(input)

RunStep ==
  \/ RunBegin
  \/ RunAcquire
  \/ RunAcquireRaises
  \/ RunSetCurrent
  \/ RunDiscard
  \/ RunCheckCancelled
  \/ RunResult
  \/ RunUpdate
  \/ RunAdjustReturn

SubStep == \E k \in 1..Len(streams) : SubDone(k) \/ SubFail(k)

NextLive ==
  \/ Next
  \/ \E k \in 1..Len(streams), end \in 0..MaxEnd : OnProgressUpdate(k, end)

SpecLive ==
  /\ InitLive
  /\ [][NextLive]_vars
  /\ WF_pc(RunStep)
  /\ WF_futs(SubStep)

(***************************************************************************)
(* The run on lists of streams of every class that _adjust_metadata tells   *)
(* apart, with up to three OverlayStreams, one of which yields a single     *)
(* DataArray.                                                               *)
(***************************************************************************)
AdjustStreams ==
  {"fluoRed", "semB", "semCCD", "overlay", "overlayB", "overlayShort"}

AdjustInputs ==
  UNION { { l \in ListsOf(AdjustStreams, n) : Distinct(l) } :
          n \in 0..MaxAdjustStreams }

InitAdjust == \E input \in AdjustInputs : InitTask(input)

NextAdjust ==
  \/ RunBegin
  \/ RunAcquire
  \/ RunAcquireRaises
  \/ RunSetCurrent
  \/ RunDiscard
  \/ RunCheckCancelled
  \/ RunResult
  \/ RunUpdate
  \/ RunAdjustReturn
  \/ \E k \in 1..Len(streams) : SubDone(k)
  \/ \E k \in 1..Len(streams) : SubFail(k)

SpecAdjust == InitAdjust /\ [][NextAdjust]_vars

(***************************************************************************)
(* The functions of the module applied to lists of streams of any class:    *)
(* estimateTime() on the list, and the construction of the task (which      *)
(* sorts the list by _weight_stream and fills _streamTimes).                *)
(***************************************************************************)
InitPure ==
  /\ streams_in \in AnyInputs
  /\ streams = << >>
  /\ streamTimes = << >>
  /\ streams_left = {}
  /\ current_stream = None
  /\ current_future = 0
  /\ cancelled = FALSE
  /\ progress = None
  /\ futs = << >>
  /\ pc = "new"
  /\ i = 0
  /\ f = 0
  /\ raw_images = << >>
  /\ expected_time = 0
  /\ ret = << >>
  /\ exp = NoException
  /\ raised = NoException
  /\ thrown = [exc |-> NoException, line |-> 0]
  /\ started = << >>
  /\ completed = << >>
  /\ cpc = "idle"
  /\ c_future = 0
  /\ c_cancelled = FALSE
  /\ c_inflight = 0
  /\ c_state = "none"
  /\ ncalls = 0
  /\ cancel_log = << >>
  /\ c_when = "none"
  /\ nruns = 0
  /\ fut_state = "Pending"
  /\ subscribed = {}
  /\ last_update = NoUpdate
  /\ est_pc = "idle"
  /\ est_k = 0
  /\ tot_time = 0
  /\ acq_pc = "none"
  /\ task_canceller = None
  /\ cancel_lost = FALSE

\* AcquisitionTask.__init__, lines 174-189
Construct ==
  /\ pc = "new"
  /\ streams' = SortedStreams(streams_in)
  /\ streamTimes' = [s \in Range(streams_in) |-> estimateAcquisitionTime(s)]
  /\ streams_left' = Range(streams')
  /\ current_stream' = None
  /\ current_future' = 0
  /\ cancelled' = FALSE
  /\ futs' = [k \in 1..Len(streams') |-> "none"]
  /\ pc' = "start"
  /\ UNCHANGED << streams_in, i, f, raw_images, expected_time, ret, exp,
                  raised, thrown, hist_vars, cancel_vars, progress, nruns,
                  fut_state, update_vars, est_vars, acq_vars >>

\* estimateTime(streams), lines 87-100
EstimateTime ==
  /\ est_pc = "idle"
  /\ tot_time' = estimateTime(streams_in)
  /\ est_k' = Len(streams_in)
  /\ est_pc' = "returned"
  /\ UNCHANGED << task_vars, run_vars, hist_vars, cancel_vars, progress, futs,
                  nruns, fut_state, update_vars, acq_vars >>

NextPure == Construct \/ EstimateTime \/ RunBegin

SpecPure == InitPure /\ [][NextPure]_vars

SpecReuse == Init /\ [][NextReuse]_vars

(***************************************************************************)
(* acquire() step by step (lines 72-85): the future is created, the task     *)
(* constructed, task.cancel bound as the canceller of the future, the        *)
(* thread of run() started and the future returned.  cancel() of the future  *)
(* calls its task_canceller; the caller has the future once acquire() has    *)
(* returned it.                                                              *)
(***************************************************************************)
InitAcquire ==
  /\ streams_in \in LiveInputs
  /\ streams = << >>
  /\ streamTimes = << >>
  /\ streams_left = {}
  /\ current_stream = None
  /\ current_future = 0
  /\ cancelled = FALSE
  /\ progress = None
  /\ futs = << >>
  /\ pc = "new"
  /\ i = 0
  /\ f = 0
  /\ raw_images = << >>
  /\ expected_time = 0
  /\ ret = << >>
  /\ exp = NoException
  /\ raised = NoException
  /\ thrown = [exc |-> NoException, line |-> 0]
  /\ started = << >>
  /\ completed = << >>
  /\ cpc = "idle"
  /\ c_future = 0
  /\ c_cancelled = FALSE
  /\ c_inflight = 0
  /\ c_state = "none"
  /\ ncalls = 0
  /\ cancel_log = << >>
  /\ c_when = "none"
  /\ nruns = 0
  /\ fut_state = "Pending"
  /\ subscribed = {}
  /\ last_update = NoUpdate
  /\ est_pc = "idle"
  /\ est_k = 0
  /\ tot_time = 0
  /\ acq_pc = "future"
  /\ task_canceller = None
  /\ cancel_lost = FALSE

\* An acquire() that starts the thread without binding the canceller
AcquireBindCancellerSkipped ==
  /\ acq_pc = "future"
  /\ pc = "start"
  /\ acq_pc' = "bound"
  /\ UNCHANGED << task_vars, run_vars, hist_vars, cancel_vars, progress, futs,
                  nruns, fut_state, update_vars, est_vars, task_canceller,
                  cancel_lost >>

\* acquire(), line 76, once the task is constructed (line 75)
AcquireBindCanceller ==
  /\ acq_pc = "future"
  /\ pc = "start"
  /\ task_canceller' = "cancel"
  /\ acq_pc' = "bound"
  /\ UNCHANGED << task_vars, run_vars, hist_vars, cancel_vars, progress, futs,
                  nruns, fut_state, update_vars, est_vars, cancel_lost >>

\* acquire(), lines 79-81
AcquireStartThread ==
  /\ acq_pc = "bound"
  /\ acq_pc' = "started"
  /\ UNCHANGED << task_vars, run_vars, hist_vars, cancel_vars, progress, futs,
                  nruns, fut_state, update_vars, est_vars, task_canceller,
                  cancel_lost >>

\* acquire(), line 84
AcquireReturn ==
  /\ acq_pc = "started"
  /\ acq_pc' = "returned"
  /\ UNCHANGED << task_vars, run_vars, hist_vars, cancel_vars, progress, futs,
                  nruns, fut_state, update_vars, est_vars, task_canceller,
                  cancel_lost >>

ThreadStarted == acq_pc \in { "started", "returned" }

\* The thread started at line 81 calls task.run
ThreadRunBegin == ThreadStarted /\ RunBegin

\* cancel() of the future acquire() returned: the call of its task_canceller
FutureCancel ==
  /\ acq_pc = "returned"
  /\ IF task_canceller = "cancel"
     THEN CancelSetFlag
     ELSE /\ cpc = "idle"
          /\ ~cancel_lost
          /\ cancel_lost' = TRUE
          /\ UNCHANGED << task_vars, run_vars, hist_vars, cancel_vars,
                          progress, futs, nruns, fut_state, update_vars,
                          est_vars, acq_pc, task_canceller >>

NextAcquire ==
  \/ Construct
  \/ AcquireBindCanceller
  \/ AcquireStartThread
  \/ AcquireReturn
  \/ ThreadRunBegin
  \/ RunAcquire
  \/ RunAcquireRaises
  \/ RunSetCurrent
  \/ RunDiscard
  \/ RunCheckCancelled
  \/ RunResult
  \/ RunUpdate
  \/ RunAdjustReturn
  \/ \E k \in 1..Len(streams) : SubDone(k)
  \/ \E k \in 1..Len(streams) : SubFail(k)
  \/ FutureCancel
  \/ CancelReadFuture
  \/ CancelCurrentFuture
  \/ CancelReturn

SpecAcquire == InitAcquire /\ [][NextAcquire]_vars

(***************************************************************************)
(* Properties                                                               *)
(***************************************************************************)
Terminal == pc \in {"returned", "raised"}
FullSuccess == pc = "returned" /\ exp = NoException
RaisedCancelled == pc = "raised" /\ raised = CancelledError
StartedStreams == [k \in 1..Len(started) |-> started[k].stream]
NoSubStepFailed ==
  /\ \A k \in DOMAIN futs : futs[k] # "failed"
  /\ thrown.exc.type \notin {"AcquisitionError", "StartError"}
IsError(e) == e.type \in {"AcquisitionError", "StartError", "IndexError"}
PosIn(l, s) == CHOOSE k \in 1..Len(l) : l[k] = s
\* The DataArrays the streams of the list S yielded, as acquired
Acquired(S) == UNION { Range(DataArrays(s)) : s \in Range(S) }
RECURSIVE CountArrays(_)
CountArrays(S) ==
  IF S = << >> THEN 0 ELSE Len(DataArrays(Head(S))) + CountArrays(Tail(S))

\* C1: the acquisitions started are, in order, a prefix of the sorted list
\* (so no stream is started twice, skipped or started out of order), the
\* results obtained are a prefix of it too, and a run that ended with no
\* failed sub-step and no cancellation requested has started and completed
\* every stream of the sorted list, in that order.
C1_EachStreamOnceInOrder ==
  /\ Len(started) <= Len(streams)
  /\ StartedStreams = SubSeq(streams, 1, Len(started))
  /\ Len(completed) <= Len(started)
  /\ completed = SubSeq(streams, 1, Len(completed))
  /\ (Terminal /\ NoSubStepFailed /\ ~cancelled) =>
        /\ StartedStreams = streams
        /\ completed = streams
        /\ FullSuccess

C1_Witness ==
  /\ FullSuccess /\ ~cancelled
  /\ Len(streams) = 3
  /\ streams # streams_in
  /\ completed = streams

\* C2: at most one sub-future is running at any time, and the acquisition
\* at position k+1 is started only once run() has obtained the result of
\* position k.
C2_OneSubStepInFlight ==
  /\ \A j, k \in DOMAIN futs :
        (futs[j] = "running" /\ futs[k] = "running") => j = k
  /\ Len(started) <= Len(completed) + 1
  /\ \A k \in DOMAIN futs :
        (futs[k] = "running") => (k = Len(started) /\ Len(completed) = k - 1)

C2_Witness ==
  /\ Len(started) = 2
  /\ Len(completed) = 1
  /\ futs[2] = "running"
  /\ futs[1] = "done"

\* The weight _weight_stream gives each stream
WeightOf == [s \in AllStreams |-> weight_stream(s)]

\* C3: the sorted list is a permutation of the input in which weights never
\* increase and streams of equal weight keep their input order; when the
\* weights are pairwise distinct every permutation of the input is sorted to
\* the same list (the list is fixed by the constructor: the permutations are
\* compared in the state the constructor leaves).
C3_SortedStableDescending ==
  /\ Len(streams) = Len(streams_in)
  /\ Range(streams) = Range(streams_in)
  /\ \A a, b \in 1..Len(streams) :
        a < b => WeightOf[streams[a]] >= WeightOf[streams[b]]
  /\ \A a, b \in 1..Len(streams) :
        (a < b /\ WeightOf[streams[a]] = WeightOf[streams[b]])
          => PosIn(streams_in, streams[a]) < PosIn(streams_in, streams[b])
  /\ (/\ pc = "start"
      /\ \A a, b \in 1..Len(streams_in) :
            a # b => WeightOf[streams_in[a]] # WeightOf[streams_in[b]])
       => \A p \in KeyOrders(Range(streams_in)) : SortedStreams(p) = streams

\* an input out of order and with two streams of equal weight, executed
C3_Witness ==
  /\ streams_in = << "overlay", "semB", "semA" >>
  /\ streams = << "semB", "semA", "overlay" >>
  /\ StartedStreams = streams

\* C4: when a non-cancellation error is raised in the run while no stream
\* has produced a result, run() raises that error and returns no tuple.
C4_FirstFailureRaises ==
  (IsError(thrown.exc) /\ completed = << >>) =>
     /\ pc = "raised"
     /\ raised = thrown.exc
     /\ ret = << >>
     /\ exp = NoException
     /\ (thrown.line = 233 => (futs[f] = "failed" /\ raised = AcqError(f)))

C4_Witness ==
  /\ thrown.exc = AcqError(1)
  /\ thrown.line = 233
  /\ completed = << >>
  /\ pc = "raised"
  /\ Len(streams) = 3

\* C5: when a sub-step raises a non-cancellation error after at least one
\* stream has produced a result, run() returns the DataArrays of exactly the
\* streams completed before, each once, with that error as second element.
C5_LaterFailureReturnsPartial ==
  (IsError(thrown.exc) /\ completed # << >>) =>
     /\ pc = "returned"
     /\ raised = NoException
     /\ exp = thrown.exc
     /\ Range(ret) = Acquired(completed)
     /\ Len(ret) = CountArrays(completed)
     /\ (thrown.line = 233 => (futs[f] = "failed" /\ exp = AcqError(f)))

C5_Witness ==
  /\ thrown.exc = AcqError(3)
  /\ Len(completed) = 2
  /\ pc = "returned"
  /\ exp = AcqError(3)
  /\ Len(ret) >= 2

\* C6: a CancelledError raised in the run always leaves run() as a
\* CancelledError, also when streams have already produced results; no tuple
\* is returned.
C6_CancellationPropagates ==
  (thrown.exc = CancelledError) =>
     /\ pc = "raised"
     /\ raised = CancelledError
     /\ ret = << >>
     /\ exp = NoException

\* the result() of the second sub-step raised CancelledError
C6_Witness ==
  /\ thrown = [exc |-> CancelledError, line |-> 233]
  /\ Len(completed) = 1
  /\ RaisedCancelled

C8_CancelValueTellsOutcome ==
  \A c \in 1..Len(cancel_log) :
     /\ cancel_log[c].value => ~FullSuccess
     /\ (~cancel_log[c].value /\ ncalls = 1) => ~RaisedCancelled

\* C9 as stated: cancel() called while the last sub-step is in flight, and
\* refused by that sub-future, returns False, and the run, when no sub-step
\* fails, ends with the results of all streams and no error.
C9_RefusedOnLastStep ==
  \A c \in 1..Len(cancel_log) :
     ( /\ cancel_log[c].inflight = Len(streams)
       /\ cancel_log[c].asked = Len(streams)
       /\ cancel_log[c].asked_state = "running"
       /\ ~cancel_log[c].accepted
       /\ cancel_log[c].left = {}
       /\ ncalls = 1 )
     => /\ ~cancel_log[c].value
        /\ (Terminal /\ NoSubStepFailed) => (FullSuccess /\ completed = streams)

\* C10: when cancel() asks the sub-future in flight and it accepts, cancel()
\* returns True, no later stream is started, run() never obtains a result of
\* that sub-step, and the run ends by raising CancelledError.
C10_AcceptedCancelEndsRun ==
  \A c \in 1..Len(cancel_log) :
     (cancel_log[c].asked_state = "running" /\ cancel_log[c].accepted) =>
        /\ cancel_log[c].value
        /\ Len(started) = cancel_log[c].asked
        /\ Len(completed) < cancel_log[c].asked
        /\ futs[cancel_log[c].asked] = "cancelled"
        /\ Terminal => RaisedCancelled

\* accepted while the last stream was in flight: nothing left to start
C10_Witness ==
  /\ Len(cancel_log) = 1
  /\ cancel_log[1].asked = 2
  /\ cancel_log[1].asked_state = "running"
  /\ cancel_log[1].accepted
  /\ cancel_log[1].left = {}
  /\ cancel_log[1].value
  /\ Len(streams) = 2
  /\ RaisedCancelled


\* The calls of cancel() that returned and were made at the given moment
\* of run(), before any other call of cancel().
FirstCallAt(moment) ==
  { c \in DOMAIN cancel_log : c = 1 /\ cancel_log[c].when = moment }

\* No acquisition started after cancel() was called gave run() its result
NothingCompletedAfterCancel ==
  \A k \in DOMAIN started :
     started[k].after_cancel => started[k].stream \notin Range(completed)

\* C11: a cancel() called in the gap between an acquisition that ended with
\* its data and the start of the next one, with streams remaining, returns
\* True, and the run (no sub-step failing) ends by raising CancelledError
\* with no further stream completed.
C11_GapCancelNeverLost ==
  \A c \in FirstCallAt("gap") :
     /\ cancel_log[c].value = TRUE
     /\ (Terminal /\ NoSubStepFailed) => RaisedCancelled
     /\ NothingCompletedAfterCancel

\* C11, the part on run() alone
C11_GapCancelEndsRun ==
  \A c \in FirstCallAt("gap") :
     /\ (Terminal /\ NoSubStepFailed) => RaisedCancelled
     /\ NothingCompletedAfterCancel

\* C12 as stated: after a cancel() called before any acquisition was
\* started, run() obtains no result and ends by raising CancelledError.
C12_CancelBeforeStartRaises ==
  \A c \in FirstCallAt("before") :
     /\ completed = << >>
     /\ Terminal => RaisedCancelled

\* C12: after a cancel() called before any acquisition was started, run()
\* obtains no result; it returns ([], None) for an empty list, raises the
\* error of the first s.acquire() when that call raises, and otherwise
\* raises CancelledError having started the first stream only.
C12_CancelBeforeStartNoResult ==
  \A c \in FirstCallAt("before") :
     /\ completed = << >>
     /\ ret = << >>
     /\ Terminal =>
          CASE streams = << >> -> FullSuccess
            [] thrown.exc = StartError(1) ->
                 pc = "raised" /\ raised = StartError(1) /\ started = << >>
            [] OTHER -> RaisedCancelled /\ Len(started) = 1

C12_Witness ==
  /\ FirstCallAt("before") # {}
  /\ RaisedCancelled
  /\ Len(started) = 1
  /\ started[1].after_cancel
  /\ Len(streams) >= 2

\* C13: a call of run() on a task whose run() was called before fails with
\* an AssertionError before it starts any acquisition.
C13_SecondRunAsserts ==
  nruns >= 2 =>
     /\ pc \in { "start", "raised" }
     /\ pc = "raised" => raised = AssertionError

\* The four ways a call of run() ends
ReturnedFull == pc = "returned" /\ exp = NoException
ReturnedPartial == pc = "returned" /\ IsError(exp)
RaisedError == pc = "raised" /\ IsError(raised)
Outcomes ==
  { o \in { "full", "partial", "error", "cancelled" } :
      \/ o = "full" /\ ReturnedFull
      \/ o = "partial" /\ ReturnedPartial
      \/ o = "error" /\ RaisedError
      \/ o = "cancelled" /\ RaisedCancelled }

OneOutcome ==
  /\ Cardinality(Outcomes) = IF Terminal THEN 1 ELSE 0
  /\ pc # "returned" => ret = << >> /\ exp = NoException
  /\ pc # "raised" => raised = NoException
  /\ fut_state \in { "Pending", "Running", "Finished", "Failed", "Cancelled" }
  /\ fut_state = "Finished" => pc = "returned"
  /\ fut_state = "Failed" => RaisedError
  /\ Terminal => FutureEnded(fut_state)

OutcomeKept ==
  /\ Terminal => UNCHANGED << pc, ret, exp, raised >>
  /\ FutureEnded(fut_state) => UNCHANGED fut_state

\* C14: a call of run() ends in exactly one of four ways (full result,
\* partial result with an error, raised error, CancelledError) and what it
\* returned or raised never changes afterwards; the future is then Finished,
\* Failed or Cancelled, and keeps the first of these states it reached.
C14_OneTerminalOutcome == []OneOutcome /\ [][OutcomeKept]_vars

C14_Witness ==
  /\ fut_state = "Cancelled"
  /\ ReturnedPartial
  /\ \E c \in DOMAIN cancel_log : cancel_log[c].value

\* The number of times s is listed in l
RECURSIVE Count(_, _)
Count(l, s) ==
  IF l = << >> THEN 0
  ELSE (IF Head(l) = s THEN 1 ELSE 0) + Count(Tail(l), s)

\* The sum over the streams of S of their estimate times their number of
\* occurrences in l: a value that depends on the bag of the list only.
RECURSIVE BagSum(_, _)
BagSum(l, S) ==
  IF S = {} THEN 0
  ELSE LET s == CHOOSE x \in S : TRUE IN
       Count(l, s) * Stream[s].time + BagSum(l, S \ {s})

\* The lists that are l in another order
Reorderings(l) ==
  { [k \in 1..Len(l) |-> l[p[k]]] :
      p \in { q \in [1..Len(l) -> 1..Len(l)] :
                \A a, b \in 1..Len(l) : a # b => q[a] # q[b] } }

EstimateIsSum ==
  est_pc = "returned" =>
     /\ tot_time = BagSum(streams_in, Range(streams_in))
     /\ \A l \in Reorderings(streams_in) : estimateTime(l) = tot_time

EstimateChangesNothing ==
  est_pc' # est_pc =>
     UNCHANGED << task_vars, run_vars, hist_vars, cancel_vars, progress, futs,
                  nruns, fut_state, update_vars >>

StaleUpdate ==
  /\ \E k \in 1..Len(streams), end \in 0..MaxEnd : OnProgressUpdate(k, end)
  /\ last_update'.from # last_update'.tracked

\* C16: a progress update of a sub-future that is not the tracked one
\* leaves the end given to the future, and all the state of the task and of
\* run(), unchanged.
C16_StaleUpdateIgnored ==
  [][StaleUpdate =>
       UNCHANGED << progress, task_vars, run_vars, futs, fut_state,
                    subscribed >>]_vars

C16_Witness ==
  /\ last_update = [from |-> 1, tracked |-> 2]
  /\ started # << >>
  /\ Len(started) = 2
  /\ pc = "result"

\* The DataArrays of the list run() returned, without their metadata
RetItems == { [stream |-> ret[k].stream, idx |-> ret[k].idx] : k \in DOMAIN ret }

\* The DataArrays the streams of the set S yield, without their metadata
ItemsOf(S) ==
  UNION { { [stream |-> s, idx |-> j] : j \in 1..Len(Stream[s].md) } : s \in S }

NonOverlay(S) == { s \in S : Stream[s].kind # "OverlayStream" }

\* C17: in the list a fully successful run returns there is no DataArray of
\* an OverlayStream, and there is each DataArray of every other stream of
\* the task, once.
C17_OverlayResultsRemoved ==
  FullSuccess =>
     /\ \A k \in DOMAIN ret : Stream[ret[k].stream].kind # "OverlayStream"
     /\ RetItems = ItemsOf(NonOverlay(Range(streams)))
     /\ Len(ret) = Cardinality(RetItems)

C17_Witness ==
  /\ FullSuccess
  /\ "overlay" \in Range(completed)
  /\ Len(streams) = 3
  /\ Len(ret) >= 2

\* C18: in the list a fully successful run returns, a DataArray acquired
\* with a description has kept it, and one acquired without has the name of
\* its stream as description.
C18_DescriptionKeptOrStreamName ==
  FullSuccess =>
     \A k \in DOMAIN ret :
        LET orig == Stream[ret[k].stream].md[ret[k].idx] IN
        /\ "description" \in DOMAIN ret[k].metadata
        /\ ret[k].metadata.description =
             IF "description" \in DOMAIN orig THEN orig.description
             ELSE Stream[ret[k].stream].name

C18_Witness ==
  /\ FullSuccess
  /\ "overlay" \in Range(completed)
  /\ "semB" \in Range(completed)
  /\ \E k \in DOMAIN ret : ret[k].metadata.description = "Second frame"
  /\ \E k \in DOMAIN ret : ret[k].metadata.description = "Backscattered electrons"

C18_WitnessNoOverlay ==
  /\ FullSuccess
  /\ "overlay" \notin Range(streams)
  /\ \E k \in DOMAIN ret : ret[k].metadata.description = "Survey"
  /\ \E k \in DOMAIN ret : ret[k].metadata.description = "Red dye"

\* C19: in the list a partially successful run returns (with the error of
\* a later stream) there is no DataArray of an OverlayStream, and a
\* DataArray acquired without description has the name of its stream as
\* description.
C19_PartialResultsAdjusted ==
  ReturnedPartial =>
     \A k \in DOMAIN ret :
        LET orig == Stream[ret[k].stream].md[ret[k].idx] IN
        /\ Stream[ret[k].stream].kind # "OverlayStream"
        /\ "description" \notin DOMAIN orig =>
             /\ "description" \in DOMAIN ret[k].metadata
             /\ ret[k].metadata.description = Stream[ret[k].stream].name

\* C19, the part on the overlay entries
C19_NoOverlayInPartialResults ==
  ReturnedPartial =>
     \A k \in DOMAIN ret : Stream[ret[k].stream].kind # "OverlayStream"

\* The classes of the claim, in its order: fluorescence, other optical,
\* electron beam, combined scan, overlay, any other.
ClassRank(s) ==
  CASE Stream[s].kind = "FluoStream" -> 1
    [] Stream[s].kind = "BrightfieldStream" -> 2
    [] Stream[s].kind = "SEMStream" -> 3
    [] Stream[s].kind \in { "SEMCCDMDStream", "SEMMDStream" } -> 4
    [] Stream[s].kind = "OverlayStream" -> 5
    [] OTHER -> 6

\* The weight of each class, in units of WeightScale
ClassWeight(s) ==
  CASE ClassRank(s) = 1 -> 100
    [] ClassRank(s) = 2 -> 90
    [] ClassRank(s) = 3 -> 50
    [] ClassRank(s) = 4 -> 40
    [] ClassRank(s) = 5 -> 10
    [] OTHER -> 0

C21_OverlayLast ==
  pc # "new" =>
     \A a, b \in 1..Len(streams) :
        (a < b /\ Stream[streams[a]].kind = "OverlayStream")
          => Stream[streams[b]].kind = "OverlayStream"

\* C21, as far as it holds: after an OverlayStream stand only overlay
\* streams and streams of a class _weight_stream does not know
C21_OnlyUnknownAfterOverlay ==
  pc # "new" =>
     \A a, b \in 1..Len(streams) :
        (a < b /\ Stream[streams[a]].kind = "OverlayStream")
          => ClassRank(streams[b]) >= 5

\* The centre of a band <<low, high>>
BandCentre(band) == (band[1] + band[2]) \div 2

\* C22: a FluoStream whose emission has several bands and whose excitation
\* has one weighs 100 plus the centre of the excitation plus the offset of
\* 50e-6; when the excitation has several bands too, the bonus is the
\* centre of one of the bands.
C22_ExcitationFallback ==
  pc # "new" =>
     \A s \in Range(streams_in) :
        (Stream[s].kind = "FluoStream" /\ Len(Stream[s].emission) > 1) =>
           IF Len(Stream[s].excitation) = 1
           THEN weight_stream(s) =
                  100 * WeightScale + BandCentre(Stream[s].excitation[1]) + 500
           ELSE \E b \in 1..Len(Stream[s].emission) :
                  weight_stream(s) =
                    100 * WeightScale + BandCentre(Stream[s].emission[b])

\* C23: the estimate run() publishes first (lines 202-205) is the sum of
\* the estimates of the streams of its list, which is what estimateTime()
\* returns for the list given to acquire(), also when a stream is listed
\* more than once.
C23_InitialEstimateIsEstimateTime ==
  (pc = "loop" /\ started = << >>) =>
     /\ progress = estimateTime(streams_in)
     /\ progress = estimateTime(streams)

\* C23, for the lists in which no stream is listed twice
C23_InitialEstimateOfDistinctStreams ==
  (pc = "loop" /\ started = << >> /\ Distinct(streams_in)) =>
     /\ progress = estimateTime(streams_in)
     /\ progress = estimateTime(streams)

\* The sum of the estimates of the entries of the sorted list from
\* position k on
BudgetFrom(k) == estimateTime(SubSeq(streams, k, Len(streams)))

\* A step of run() that publishes the remaining time after it obtained the
\* result of position i: what it publishes is the sum of the estimates of
\* the entries after i, which is not negative, and 0 after the last entry.
PublishesRemainingBudget ==
  RunUpdate =>
     /\ progress' = BudgetFrom(i + 1)
     /\ progress' >= 0
     /\ i = Len(streams) => progress' = 0

\* C24: after each successful sub-step run() publishes the sum of the
\* estimates of the streams not yet completed; the value is never negative
\* and is 0 after the last stream.
C24_RemainingBudgetPublished == [][PublishesRemainingBudget]_vars

\* A step in which the tracked sub-future reports the end of its sub-step:
\* what is published is that end plus the sum of the estimates of the
\* entries of the sorted list not yet started.
PublishesEndPlusNotStarted ==
  \A k \in 1..Len(streams), end \in 0..MaxEnd :
     (OnProgressUpdate(k, end) /\ k = current_future) =>
        progress' = end + BudgetFrom(Len(started) + 1)

\* C25: an update of the tracked sub-future publishes its end plus the sum
\* of the estimates of exactly the streams not yet started.
C25_TrackedUpdatePublishesNotStarted == [][PublishesEndPlusNotStarted]_vars

\* C25, for the updates delivered once run() has recorded the acquisition
\* it started last (lines 216-218)
PublishesEndPlusNotStartedOnceRecorded ==
  \A k \in 1..Len(streams), end \in 0..MaxEnd :
     (OnProgressUpdate(k, end) /\ k = current_future /\ k = Len(started)
        /\ pc \notin { "set_current", "discard" }) =>
        progress' = end + BudgetFrom(Len(started) + 1)

C25_TrackedUpdateOnceRecorded == [][PublishesEndPlusNotStartedOnceRecorded]_vars

\* expected_time is the time left run() published last: run() publishes it
\* when it starts and after each result, no other step changes it, and
\* each value run() publishes after the first is at most the one before.
RunPublishesNoMore ==
  /\ (RunBegin /\ pc' = "loop") => progress' = expected_time'
  /\ RunUpdate => progress' = expected_time' /\ expected_time' <= expected_time
  /\ (pc \notin { "start", "update" }) => expected_time' = expected_time

\* C26: leaving aside the updates of the sub-futures, the times left that
\* run() publishes in the course of one run never increase.
C26_RunEstimateNeverIncreases == [][RunPublishesNoMore]_vars

C26_Witness ==
  /\ Len(completed) = 2
  /\ pc = "loop"
  /\ last_update.from = 1
  /\ progress = expected_time
  /\ expected_time > 0

\* The streams of the first n acquisitions started
StartedUpTo(n) == { started[k].stream : k \in 1..n }

\* C27 as stated: _streams_left is in every state the set of the streams of
\* the sorted list whose acquisition has not been started yet, and it only
\* shrinks.
C27_RemainingIsNotStarted ==
  /\ [](streams_left = Range(streams) \ StartedUpTo(Len(started)))
  /\ [][streams_left' \subseteq streams_left]_vars

\* The acquisitions run() has recorded: all those started, but the last one
\* until line 218 is executed
Recorded ==
  IF pc \in { "set_current", "discard" } THEN Len(started) - 1
  ELSE Len(started)

\* C27, as far as it holds.
\* _streams_left only shrinks, and it is the set of the streams of the
\* sorted list of which no acquisition has been started, except that from
\* the start of an acquisition (line 213) to line 218 it still holds the
\* stream just started.
C27_RemainingIsNotRecorded ==
  /\ [](streams_left = Range(streams) \ StartedUpTo(Recorded))
  /\ [][streams_left' \subseteq streams_left]_vars

\* C28: once a call of cancel() has set _cancelled, the flag is true in
\* every later state, whatever run() and further calls of cancel() do.
C28_CancelFlagStaysSet == ncalls > 0 => cancelled = TRUE

C28_Witness ==
  /\ ncalls = 2
  /\ Len(cancel_log) = 2
  /\ cancelled
  /\ Terminal
  /\ Len(started) >= 1


\* C29: an error raised by a stream's own acquire(), before any sub-future
\* exists, ends the run as a failing sub-step does: with no stream completed
\* it is raised out of run(); with at least one stream completed it is the
\* second element of the returned pair, next to the results collected.
C29_StartErrorHandledAsSubStepFailure ==
  (thrown.exc.type = "StartError") =>
     /\ thrown.line = 213
     /\ thrown.exc = StartError(Len(started) + 1)
     /\ IF completed = << >>
        THEN /\ pc = "raised"
             /\ raised = thrown.exc
             /\ ret = << >>
             /\ exp = NoException
        ELSE /\ pc = "returned"
             /\ raised = NoException
             /\ exp = thrown.exc
             /\ Range(ret) = Acquired(completed)
             /\ Len(ret) = CountArrays(completed)

C29_Witness ==
  /\ thrown.exc = StartError(3)
  /\ Len(completed) = 2
  /\ Len(started) = 2
  /\ pc = "returned"
  /\ exp = StartError(3)


\* The positions of the sorted list whose sub-step failed or was cancelled
EndedBadly == { k \in DOMAIN futs : futs[k] \in {"failed", "cancelled"} }

\* C30: once a sub-step has failed or been cancelled, the run starts nothing
\* more: the acquisitions started are those of the positions up to the
\* failing one, each started once, so no stream placed after it in the
\* sorted list is started and the failing stream is not started again.
C30_NothingStartedAfterFailure ==
  \A k \in EndedBadly :
     /\ Len(started) = k
     /\ \A j \in 1..Len(started) :
           /\ started[j].pos = j
           /\ started[j].stream = streams[j]
     /\ \A j \in (k + 1)..Len(streams) : streams[j] \notin StartedUpTo(k)
     /\ streams[k] \notin StartedUpTo(k - 1)

\* C30, as steps: from a state where a sub-step has failed or been
\* cancelled, or where the run has an exception, no step starts a stream.
C30_NoStartAfterFailure ==
  [][(EndedBadly # {} \/ thrown.exc # NoException) => started' = started]_vars

C30_Witness ==
  /\ Len(streams) = 3
  /\ futs[1] = "failed"
  /\ Len(started) = 1
  /\ Terminal


\* The OverlayStreams of the sorted list
OverlaysOf(l) == { s \in Range(l) : IsInstance(s, "OverlayStream") }

\* The metadata md holds what the merge of the correction cor into the
\* metadata orig of the DataArray yields, and besides it a description only.
HoldsMerge(md, orig, cor) ==
  LET merged == mergeMetadata(orig, cor) IN
  /\ \A k \in DOMAIN merged : k \in DOMAIN md /\ md[k] = merged[k]
  /\ DOMAIN md \subseteq DOMAIN merged \cup {"description"}

\* C31: when the run succeeded on a list with one OverlayStream, every
\* DataArray of every OpticalStream holds the merge of the metadata of the
\* first DataArray of the overlay, every DataArray of every EMStream that of
\* the second, and the DataArrays of the other streams hold no correction.
C31_CorrectionMergedByClass ==
  (FullSuccess /\ Cardinality(OverlaysOf(streams)) = 1) =>
     LET o == CHOOSE s \in OverlaysOf(streams) : TRUE
         opt_cor_md == Stream[o].md[1]
         sem_cor_md == Stream[o].md[2]
     IN /\ \A s \in Range(streams) \ {o} : \A j \in 1..Len(Stream[s].md) :
              \E d \in Range(ret) : d.stream = s /\ d.idx = j
        /\ \A d \in Range(ret) :
              LET orig == Stream[d.stream].md[d.idx] IN
              CASE IsInstance(d.stream, "OpticalStream") ->
                     HoldsMerge(d.metadata, orig, opt_cor_md)
                [] IsInstance(d.stream, "EMStream") ->
                     HoldsMerge(d.metadata, orig, sem_cor_md)
                [] OTHER -> HoldsMerge(d.metadata, orig, NoMetadata)

C31_Witness ==
  /\ FullSuccess
  /\ Range(streams) = {"fluoRed", "semB", "overlay"}
  /\ \E d \in Range(ret) :
        d.stream = "fluoRed" /\ d.metadata.rotation = "optical correction"
  /\ \E d \in Range(ret) :
        d.stream = "semB" /\ d.metadata.rotation = "SEM correction"

C31_WitnessOtherClass ==
  /\ FullSuccess
  /\ Range(streams) = {"fluoRed", "semCCD", "overlay"}
  /\ \A d \in Range(ret) :
        d.stream = "semCCD" => "rotation" \notin DOMAIN d.metadata


\* Every stream of the list has yielded its data and run() has ended
AllAcquired == Terminal /\ Len(completed) = Len(streams)

\* Every OverlayStream of the list yields the two DataArrays expected
OverlaysComplete == \A o \in OverlaysOf(streams) : Len(Stream[o].md) >= 2

\* The DataArrays returned hold the correction of the OverlayStream o
CorrectedBy(o) ==
  \A d \in Range(ret) :
     LET orig == Stream[d.stream].md[d.idx] IN
     CASE IsInstance(d.stream, "OpticalStream") ->
            HoldsMerge(d.metadata, orig, Stream[o].md[1])
       [] IsInstance(d.stream, "EMStream") ->
            HoldsMerge(d.metadata, orig, Stream[o].md[2])
       [] OTHER -> HoldsMerge(d.metadata, orig, NoMetadata)

\* C32: when several OverlayStreams have yielded their two DataArrays, the
\* run returns with no error, no DataArray of any OverlayStream is returned,
\* every DataArray of the other streams is, and the corrections merged all
\* come from one and the same OverlayStream.
C32_SeveralOverlaysOneCorrection ==
  (AllAcquired /\ Cardinality(OverlaysOf(streams)) >= 2 /\ OverlaysComplete) =>
     /\ FullSuccess
     /\ raised = NoException
     /\ \A d \in Range(ret) : ~IsInstance(d.stream, "OverlayStream")
     /\ \A s \in Range(streams) \ OverlaysOf(streams) :
           \A j \in 1..Len(Stream[s].md) :
              \E d \in Range(ret) : d.stream = s /\ d.idx = j
     /\ \E o \in OverlaysOf(streams) : CorrectedBy(o)

C32_Witness ==
  /\ FullSuccess
  /\ Range(streams) = {"fluoRed", "semB", "overlay", "overlayB"}
  /\ CorrectedBy("overlayB")
  /\ Len(ret) = 3


\* C37: an IndexError raised by _adjust_metadata once every stream has
\* yielded its data does not leave run(): run() returns it as the second
\* element, with the DataArrays of every stream that is not an OverlayStream
\* as they were acquired, and nothing that was not acquired.
C37_AdjustErrorReturned ==
  (thrown.exc = IndexError) =>
     /\ thrown.line = 240
     /\ Len(completed) = Len(streams)
     /\ pc = "returned"
     /\ raised = NoException
     /\ exp = IndexError
     /\ ret # << >>
     /\ Range(ret) \subseteq Acquired(completed)
     /\ \A s \in Range(streams) \ OverlaysOf(streams) :
           Range(DataArrays(s)) \subseteq Range(ret)

C37_Witness ==
  /\ thrown.exc = IndexError
  /\ pc = "returned"
  /\ exp = IndexError
  /\ Range(streams) = {"fluoRed", "semB", "overlayShort"}
  /\ Len(ret) = 4


\* C33: when the thread of run() is scheduled and every acquisition started
\* ends (with its data, an exception or cancelled), run() returns or raises
\* in the end, whatever cancel() and the progress updates do meanwhile.
C33_RunTerminates == <>Terminal

C33_Witness ==
  /\ Terminal
  /\ Len(cancel_log) > 0
  /\ last_update # NoUpdate
  /\ Len(started) = 2


\* run() has ended after every stream yielded its data
EndedComplete ==
  Terminal /\ Len(completed) = Len(streams) /\ ~IsCancelledError(thrown.exc)

\* run() has ended on an error with the data of a stream collected, or none
EndedOnErrorWithData == Terminal /\ IsError(thrown.exc) /\ completed # << >>
EndedOnErrorNoData == Terminal /\ IsError(thrown.exc) /\ completed = << >>

\* C34 as stated: the future is Finished exactly when every stream yielded
\* its data or a stream failed after one had, Failed exactly when a stream
\* failed before any had, and neither when run() raised CancelledError.
C34_FutureFinishedOrFailed ==
  /\ fut_state = "Finished" <=> (EndedComplete \/ EndedOnErrorWithData)
  /\ fut_state = "Failed" <=> EndedOnErrorNoData
  /\ RaisedCancelled => fut_state \notin { "Finished", "Failed" }

\* C34, as far as it holds: the same when no call of cancel() has returned
\* True, and in every case from the state of the future to the end of run().
C34_FutureFollowsRunUnlessCancelled ==
  /\ (\A c \in DOMAIN cancel_log : ~cancel_log[c].value) =>
        /\ fut_state = "Finished" <=> (EndedComplete \/ EndedOnErrorWithData)
        /\ fut_state = "Failed" <=> EndedOnErrorNoData
  /\ fut_state = "Finished" => (EndedComplete \/ EndedOnErrorWithData)
  /\ fut_state = "Failed" => EndedOnErrorNoData
  /\ RaisedCancelled => fut_state = "Cancelled"


\* A run whose first acquisition refused a cancellation that cancel()
\* reported as done, and then failed by itself
C34_CancelledThenFailed ==
  /\ fut_state = "Cancelled"
  /\ EndedOnErrorNoData
  /\ thrown.exc = AcqError(1)
  /\ \E c \in DOMAIN cancel_log :
        /\ cancel_log[c].value
        /\ cancel_log[c].asked = 1
        /\ ~cancel_log[c].accepted


\* The acquisitions started that have not ended
InFlight == { k \in DOMAIN futs : futs[k] = "running" }

\* C35 as stated: once run() has returned or raised, no acquisition it
\* started is still in progress.
C35_NothingInFlightAtEnd == Terminal => InFlight = {}

\* C35, as far as it holds: an acquisition is left in progress only by the
\* raise of line 223, and it is then the last one started.
C35_InFlightOnlyAfterFlagCheck ==
  (Terminal /\ InFlight # {}) =>
     /\ thrown = [exc |-> CancelledError, line |-> 223]
     /\ InFlight = { Len(started) }


\* A call of cancel() has returned True
CancelReturnedTrue == \E c \in DOMAIN cancel_log : cancel_log[c].value

\* C36 as stated: once cancel() has returned True, run() ends by raising
\* CancelledError; it returns no result, full or partial, and raises no
\* other error.
C36_TrueCancelEndsByCancellation ==
  [][(CancelReturnedTrue /\ ~Terminal /\ Terminal') => RaisedCancelled']_vars

\* C36, as far as it holds: after a True return of cancel() made before
\* run() ended, run() never returns a full result, and it ends otherwise
\* than by CancelledError only on the error of a stream.
C36_TrueCancelNeverFullResult ==
  (Terminal /\ \E c \in DOMAIN cancel_log :
                  cancel_log[c].value /\ cancel_log[c].when # "ended") =>
     /\ ~FullSuccess
     /\ RaisedCancelled \/ IsError(thrown.exc)


\* C38: task.cancel is the canceller of the future from before the thread
\* of run() is started, so that no cancel() of the future made once run()
\* has begun misses AcquisitionTask.cancel; and acquire() returns as soon
\* as the thread is started, whatever the acquisitions have come to.
C38_CancellerBoundBeforeThread ==
  /\ ThreadStarted => task_canceller = "cancel"
  /\ nruns > 0 => ThreadStarted /\ task_canceller = "cancel"
  /\ ~cancel_lost
  /\ ncalls > 0 => acq_pc = "returned"
  /\ acq_pc = "started" => ENABLED AcquireReturn

C38_Witness ==
  /\ acq_pc = "returned"
  /\ Len(streams) = 2
  /\ completed = << >>
  /\ futs[1] = "running"
  /\ \E c \in DOMAIN cancel_log : cancel_log[c].when = "other"

====
